---- MODULE Spec2Model ----
(***************************************************************************)
(* Model of app.py, the single script of GenAI-Stock-Analyst.              *)
(*                                                                         *)
(* One press of "Analyze Stock" runs the script body once: fundamentals,   *)
(* news, technical indicators, model load, prompt, generation.  The only   *)
(* state that outlives a run is the st.cache_resource entry of load_model. *)
(*                                                                         *)
(* Numbers.  Prices are integers.  The exponential averages of the ta      *)
(* library (RSIIndicator, MACD) are IEEE doubles in the program; here each *)
(* is an enclosure [lo, hi] of integers in units of 1/Scale that contains  *)
(* the exact real value (lo is rounded down, hi up at every step).  A      *)
(* comparison the enclosures decide has the program's outcome; one they    *)
(* do not decide yields both outcomes.                                     *)
(***************************************************************************)
EXTENDS Integers, Sequences, FiniteSets, TLC

\* ------------------------------------------------------------------ bounds
\* resolution of the enclosures: 1/Scale of a price unit
Scale == 1000
\* price series of the engine specification have up to LongWindow + MaxExtra points
MaxExtra == 2
\* the daily price change of a generated series lies in -MaxSlope .. MaxSlope
MaxSlope == 2
\* a generated series changes slope up to MaxTail observations before its end
MaxTail == 12
\* presses of "Analyze Stock" in one process
MaxRequests == 2
\* news lists of every shape up to this length (longer ones: LongNews)
MaxNews == 1
\* first price of a generated series
BasePrice == 1000

\* ------------------------------------------------------- program constants
ShortWindow == 50
LongWindow == 200
RsiWindow == 14
MacdFast == 12
MacdSlow == 26
MacdSign == 9
Overbought == 70
Oversold == 30
RsiMax == 100
NewsLimit == 5

\* ------------------------------------------------------------------ values
\* A float of the program as the script sees it: a rational n/d, or NaN.
\* A local that is not yet assigned is Unbound.
Rat(n, d) == [kind |-> "num", n |-> n, d |-> d]
Num(v) == Rat(v, 1)
NaN == [kind |-> "nan", n |-> 0, d |-> 1]
Unbound == [kind |-> "unbound", n |-> 0, d |-> 1]

\* Python's a > b and a < b on floats: False as soon as one side is NaN
FloatGt(a, b) == a.kind = "num" /\ b.kind = "num" /\ a.n * b.d > b.n * a.d
FloatLt(a, b) == a.kind = "num" /\ b.kind = "num" /\ a.n * b.d < b.n * a.d

Max(a, b) == IF a > b THEN a ELSE b
FloorDiv(a, b) == a \div b
CeilDiv(a, b) == -((-a) \div b)

\* An enclosure of a double: lo <= value * Scale <= hi; ex: the double is
\* exactly lo / Scale (then lo = hi).
Exact(v) == [lo |-> v * Scale, hi |-> v * Scale, ex |-> TRUE]
Encl(lo, hi) == [lo |-> lo, hi |-> hi, ex |-> FALSE]
EnclSub(a, b) == [lo |-> a.lo - b.hi, hi |-> a.hi - b.lo, ex |-> a.ex /\ b.ex]

\* The outcomes a > b can have, for doubles inside the enclosures a and b.
EnclGt(a, b) ==
    IF a.ex /\ b.ex THEN {a.lo > b.lo}
    ELSE IF a.lo > b.hi THEN {TRUE}
    ELSE IF a.hi < b.lo THEN {FALSE}
    ELSE {TRUE, FALSE}

\* ------------------------------------------------ pandas / ta, as called
\* Series.rolling(w).mean().iloc[-1]: NaN until w observations exist
RECURSIVE SumRange(_, _, _)
SumRange(prices, i, j) ==
    IF i > j THEN 0
    ELSE IF i = j THEN prices[i]
    ELSE SumRange(prices, i, (i + j) \div 2) + SumRange(prices, (i + j) \div 2 + 1, j)

RollingMeanLast(prices, w) ==
    IF Len(prices) < w THEN NaN
    ELSE Rat(SumRange(prices, Len(prices) - w + 1, Len(prices)), w)

\* One step of Series.ewm(alpha = num/den, adjust=False).mean(); pandas
\* leaves the average untouched when the observation equals it.
EwmStep(e, x, num, den) ==
    IF e.ex /\ x.ex /\ e.lo = x.lo THEN e
    ELSE Encl(FloorDiv((den - num) * e.lo + num * x.lo, den),
              CeilDiv((den - num) * e.hi + num * x.hi, den))

\* The whole averaged series: the first observation starts it, and every
\* later one takes one step.  EwmRun extends acc, the averages of
\* observations 1 .. i-1, by those of observations i .. j.
RECURSIVE EwmRun(_, _, _, _, _, _)
EwmRun(xs, num, den, i, j, acc) ==
    IF i > j THEN acc
    ELSE IF i = j THEN Append(acc, EwmStep(acc[i - 1], xs[i], num, den))
    ELSE LET mid == (i + j) \div 2
             left == EwmRun(xs, num, den, i, mid, acc)
         IN  IF Len(left) = mid THEN EwmRun(xs, num, den, mid + 1, j, left) ELSE left

EwmSeq(xs, num, den) ==
    IF Len(xs) = 0 THEN <<>> ELSE EwmRun(xs, num, den, 2, Len(xs), <<xs[1]>>)

\* ta.utils._ema(series, periods): span = periods, min_periods = periods
Ema(xs, periods) == EwmSeq(xs, 2, periods + 1)

CloseEncl(prices) == [t \in 1..Len(prices) |-> Exact(prices[t])]

\* ta.momentum.RSIIndicator._run: diff(1) split in gains and losses, the
\* first difference (NaN) counting as 0.0
UpDirection(prices) ==
    [t \in 1..Len(prices) |->
        Exact(IF t = 1 THEN 0 ELSE Max(prices[t] - prices[t - 1], 0))]

DownDirection(prices) ==
    [t \in 1..Len(prices) |->
        Exact(IF t = 1 THEN 0 ELSE Max(prices[t - 1] - prices[t], 0))]

\* The values RSIIndicator(close, window=14).rsi().iloc[-1] can take, in
\* whole percent: NaN before RsiWindow observations, 100 where the average
\* loss is 0, else 100 - 100 / (1 + emaup / emadn).
RsiValues(prices) ==
    IF Len(prices) < RsiWindow THEN {NaN}
    ELSE LET emaup == EwmSeq(UpDirection(prices), 1, RsiWindow)[Len(prices)]
             emadn == EwmSeq(DownDirection(prices), 1, RsiWindow)[Len(prices)]
         IN  IF emadn.ex /\ emadn.lo = 0 THEN {Num(RsiMax)}
             ELSE IF emaup.ex /\ emaup.lo = 0 THEN {Num(0)}
             ELSE {Num(v) : v \in FloorDiv(RsiMax * emaup.lo, emaup.lo + emadn.hi)
                                  .. CeilDiv(RsiMax * emaup.hi, emaup.hi + emadn.lo)}

\* ta.trend.MACD(close): macd() = ema(12) - ema(26), NaN before 26
\* observations; macd_signal() = ema(9) of the defined part of macd().
MacdLine(prices) ==
    LET fast == Ema(CloseEncl(prices), MacdFast)
        slow == Ema(CloseEncl(prices), MacdSlow)
    IN  [i \in 1..Max(Len(prices) - MacdSlow + 1, 0) |->
            EnclSub(fast[i + MacdSlow - 1], slow[i + MacdSlow - 1])]

\* The outcomes of macd_value > signal_value at the last observation.
MacdAbove(prices) ==
    LET line == MacdLine(prices)
    IN  IF Len(line) < MacdSign THEN {FALSE}
        ELSE EnclGt(line[Len(line)], Ema(line, MacdSign)[Len(line)])

\* ------------------------------------------------- the script's signals
\* SmaSignal with the two windows exchanged
SmaSignalSwapped(prices) ==
    IF FloatGt(RollingMeanLast(prices, LongWindow), RollingMeanLast(prices, ShortWindow))
    THEN "Bullish (Golden Cross Trend)"
    ELSE "Bearish (Below Long Term Trend)"

\* SmaSignal testing "not below" instead of "above"
SmaSignalNotBelow(prices) ==
    IF ~FloatLt(RollingMeanLast(prices, ShortWindow), RollingMeanLast(prices, LongWindow))
    THEN "Bullish (Golden Cross Trend)"
    ELSE "Bearish (Below Long Term Trend)"

\* app.py 98-101
SmaSignal(prices) ==
    IF FloatGt(RollingMeanLast(prices, ShortWindow), RollingMeanLast(prices, LongWindow))
    THEN "Bullish (Golden Cross Trend)"
    ELSE "Bearish (Below Long Term Trend)"

\* RsiSignal with the band limits included
RsiSignalInclusive(r) ==
    IF ~FloatLt(r, Num(Overbought)) /\ r.kind = "num" THEN "Overbought - Possible Correction"
    ELSE IF ~FloatGt(r, Num(Oversold)) /\ r.kind = "num" THEN "Oversold - Possible Reversal"
    ELSE "Neutral Momentum"

\* app.py 105-110
RsiSignal(r) ==
    IF FloatGt(r, Num(Overbought)) THEN "Overbought - Possible Correction"
    ELSE IF FloatLt(r, Num(Oversold)) THEN "Oversold - Possible Reversal"
    ELSE "Neutral Momentum"

\* app.py 117-120
MacdSignal(above) == IF above THEN "Bullish Momentum" ELSE "Bearish Momentum"

\* ------------------------------------------------------- generated series
\* A series of n prices: slope d1 per observation, then slope d2 over the
\* last tail observations.
Series(n, d1, d2, tail) ==
    [t \in 1..n |->
        BasePrice + d1 * (IF t - 1 < n - tail THEN t - 1 ELSE Max(n - tail - 1, 0))
                  + d2 * (IF t - 1 < n - tail THEN 0 ELSE t - 1 - Max(n - tail - 1, 0))]

PriceSeries ==
    {Series(n, d1, d2, tail) :
        n \in {1, RsiWindow - 1, RsiWindow, MacdSlow + MacdSign - 2,
               MacdSlow + MacdSign - 1, ShortWindow, LongWindow - 1}
              \cup (LongWindow .. LongWindow + MaxExtra),
        d1 \in -MaxSlope .. MaxSlope, d2 \in -MaxSlope .. MaxSlope,
        tail \in {0, 1, MaxTail \div 2, MaxTail}}

\* the series ticker.history returns in the pipeline specification
HistorySeries ==
    {Series(1, 0, 0, 0), Series(RsiWindow, 0, 0, 0),
     Series(LongWindow, 2, 1, MaxTail), Series(LongWindow, 1, -1, MaxTail \div 2)}

\* -------------------------------------------------------- python values
\* None, where a string or a list was expected
None == "<None>"
Unset == "<unbound>"

\* dict.get(key, default)
Get(d, key, default) == IF key \in DOMAIN d THEN d[key] ELSE default

NoNews == <<"No major recent news available.">>
NA == "N/A"

InfoKeys ==
    {"longName", "sector", "industry", "marketCap", "totalRevenue",
     "grossProfits", "trailingPE", "priceToBook", "returnOnEquity", "debtToEquity"}

\* what ticker.info returns: every key, or none (an unknown ticker)
InfoDicts == {[k \in InfoKeys |-> "value"], [k \in {} |-> "value"]}

\* app.py 35-44
Fundamentals(info) ==
    [name |-> Get(info, "longName", NA), sector |-> Get(info, "sector", NA),
     industry |-> Get(info, "industry", NA), market_cap |-> Get(info, "marketCap", NA),
     rev |-> Get(info, "totalRevenue", NA), profit |-> Get(info, "grossProfits", NA),
     pe |-> Get(info, "trailingPE", NA), pb |-> Get(info, "priceToBook", NA),
     roe |-> Get(info, "returnOnEquity", NA), debt |-> Get(info, "debtToEquity", NA)]

NoFundamentals == [k \in {} |-> NA]

\* the entries of ticker.news: with both keys, with none, with a title
\* that is None, and with a title that reads like the placeholder
NewsItems ==
    {[title |-> "Shares rally", publisher |-> "Wire"],
     [k \in {} |-> ""],
     [title |-> None, publisher |-> "Wire"],
     [title |-> "No major recent news available.", publisher |-> "Wire"]}

RECURSIVE SeqsUpTo(_, _)
SeqsUpTo(S, n) ==
    IF n = 0 THEN {<<>>}
    ELSE LET shorter == SeqsUpTo(S, n - 1)
         IN  shorter \cup {Append(q, x) : q \in shorter, x \in S}

\* lists longer than the slice news[:5], the last entry good or bad
LongNews ==
    {[i \in 1..(NewsLimit + 1) |->
        IF i <= NewsLimit THEN [title |-> "Shares rally", publisher |-> "Wire"] ELSE last] :
        last \in NewsItems}

NewsLists == SeqsUpTo(NewsItems, MaxNews) \cup LongNews

NewsValue(kind, items) == [kind |-> kind, items |-> items]
Frame(kind, close) == [kind |-> kind, close |-> close]

Tickers == {"", "AAPL"}

VARIABLES
    pc,           \* where the script run stands
    stock,        \* the text input
    fund,         \* name, sector, ... debt
    news, news_i, news_text,
    data, sma_signal, rsi, rsi_signal, macd_signal,
    llm, prompt, response,
    ui,           \* what the page shows, in order
    calls,        \* gateway, load_model and generator calls of this run, in order
    raised,       \* the places of this run where an exception was raised
    uncaught,     \* the place whose exception ended the run, if any
    cache,        \* st.cache_resource entry of load_model: 0, or the pipeline
    loads,        \* executions of load_model's body in this process
    requests      \* presses of the button so far

vars ==
    <<pc, stock, fund, news, news_i, news_text, data, sma_signal, rsi, rsi_signal,
      macd_signal, llm, prompt, response, ui, calls, raised, uncaught, cache,
      loads, requests>>

newsVars == <<news, news_i, news_text>>
techVars == <<data, sma_signal, rsi, rsi_signal, macd_signal>>
aiVars == <<llm, prompt, response>>
processVars == <<cache, loads, requests>>

\* a fresh run of the script: no local is bound
NoDict == [k \in {} |-> Unset]

\* the process before any press of the button, the script at place p
Start(p, d, r) ==
    /\ pc = p /\ stock = ""
    /\ fund = NoFundamentals
    /\ news = NewsValue("unbound", <<>>) /\ news_i = 0 /\ news_text = <<Unset>>
    /\ data = d
    /\ sma_signal = Unset /\ rsi = r /\ rsi_signal = Unset /\ macd_signal = Unset
    /\ llm = 0 /\ prompt = NoDict /\ response = NoDict
    /\ ui = <<>> /\ calls = <<>> /\ raised = {} /\ uncaught = "none"
    /\ cache = 0 /\ loads = 0 /\ requests = 0

Init == Start("idle", Frame("unbound", <<>>), Unbound)

\* ------------------------------------------------------------- the script
\* Analyze without the empty-ticker branch
AnalyzeUnguarded(t) ==
    /\ pc \in {"idle", "done", "aborted"}
    /\ requests < MaxRequests
    /\ requests' = requests + 1
    /\ stock' = t
    /\ fund' = NoFundamentals
    /\ news' = NewsValue("unbound", <<>>) /\ news_i' = 0 /\ news_text' = <<Unset>>
    /\ data' = Frame("unbound", <<>>)
    /\ sma_signal' = Unset /\ rsi' = Unbound /\ rsi_signal' = Unset /\ macd_signal' = Unset
    /\ llm' = 0 /\ prompt' = NoDict /\ response' = NoDict
    /\ calls' = <<>> /\ raised' = {} /\ uncaught' = "none"
    /\ ui' = <<>>
    /\ pc' = "info"
    /\ UNCHANGED <<cache, loads>>

\* app.py 25-30: a press of the button reruns the script with the text
\* input's value; an empty ticker gets the warning and nothing else.
Analyze(t) ==
    /\ pc \in {"idle", "done", "aborted"}
    /\ requests < MaxRequests
    /\ requests' = requests + 1
    /\ stock' = t
    /\ fund' = NoFundamentals
    /\ news' = NewsValue("unbound", <<>>) /\ news_i' = 0 /\ news_text' = <<Unset>>
    /\ data' = Frame("unbound", <<>>)
    /\ sma_signal' = Unset /\ rsi' = Unbound /\ rsi_signal' = Unset /\ macd_signal' = Unset
    /\ llm' = 0 /\ prompt' = NoDict /\ response' = NoDict
    /\ calls' = <<>> /\ raised' = {} /\ uncaught' = "none"
    /\ ui' = IF t = "" THEN <<"warning: Please enter a stock ticker">> ELSE <<>>
    /\ pc' = IF t = "" THEN "done" ELSE "info"
    /\ UNCHANGED <<cache, loads>>

\* app.py 30-58: ticker.info answers; every field falls back to "N/A"
FetchInfo(info) ==
    /\ pc = "info"
    /\ calls' = Append(calls, "info")
    /\ fund' = Fundamentals(info)
    /\ ui' = ui \o <<"subheader: Company & Financial Summary", "write: fundamentals">>
    /\ pc' = "news_fetch"
    /\ UNCHANGED <<stock, newsVars, techVars, aiVars, raised, uncaught, processVars>>

\* app.py 33: ticker.info raises; nothing catches it
FetchInfoRaises ==
    /\ pc = "info"
    /\ calls' = Append(calls, "info")
    /\ raised' = raised \cup {"info"}
    /\ uncaught' = "info"
    /\ pc' = "aborted"
    /\ UNCHANGED <<stock, fund, newsVars, techVars, aiVars, ui, processVars>>

\* NewsExcept appending the placeholder to the titles gathered so far
NewsExceptAppends(at, shown) ==
    /\ raised' = raised \cup {at}
    /\ ui' = ui \o shown \o <<"info: News data could not be fetched.">>
    /\ news_text' = news_text \o NoNews
    /\ pc' = "tech_fetch"

\* app.py 75-77: the except block of the news step, entered from the
\* place at after the displays in shown
NewsExcept(at, shown) ==
    /\ raised' = raised \cup {at}
    /\ ui' = ui \o shown \o <<"info: News data could not be fetched.">>
    /\ news_text' = NoNews
    /\ pc' = "tech_fetch"

\* app.py 61-66, 72-74: ticker.news answers
FetchNews(n) ==
    /\ pc = "news_fetch"
    /\ calls' = Append(calls, "news")
    /\ news' = n
    /\ IF n.kind = "list" /\ Len(n.items) > 0
       THEN /\ news_text' = <<>>
            /\ news_i' = 1
            /\ ui' = Append(ui, "subheader: Latest News Headlines")
            /\ pc' = "news_loop"
       ELSE /\ news_text' = NoNews
            /\ news_i' = 0
            /\ ui' = ui \o <<"subheader: Latest News Headlines",
                            "info: No recent news available for this stock.">>
            /\ pc' = "tech_fetch"
    /\ UNCHANGED <<stock, fund, techVars, aiVars, raised, uncaught, processVars>>

\* app.py 65: ticker.news raises
FetchNewsRaises ==
    /\ pc = "news_fetch"
    /\ calls' = Append(calls, "news")
    /\ NewsExcept("news_fetch", <<"subheader: Latest News Headlines">>)
    /\ UNCHANGED <<stock, fund, news, news_i, techVars, aiVars, uncaught, processVars>>

\* app.py 67-71: one turn of the loop over news[:5]; a title that is None
\* is shown and then fails the concatenation
NewsItem ==
    /\ pc = "news_loop"
    /\ LET title == Get(news.items[news_i], "title", "No Title Available")
       IN  IF title = None
           THEN /\ NewsExcept("news_loop", <<"write: news item">>)
                /\ UNCHANGED news_i
           ELSE /\ ui' = Append(ui, "write: news item")
                /\ news_text' = news_text \o <<title, "\n">>
                /\ news_i' = news_i + 1
                /\ pc' = IF news_i < Len(news.items) /\ news_i < NewsLimit
                         THEN "news_loop" ELSE "tech_fetch"
                /\ UNCHANGED raised
    /\ UNCHANGED <<stock, fund, news, techVars, aiVars, calls, uncaught, processVars>>

\* app.py 68-70: the entry or its display raises
NewsItemRaises ==
    /\ pc = "news_loop"
    /\ NewsExcept("news_loop", <<>>)
    /\ UNCHANGED <<stock, fund, news, news_i, techVars, aiVars, calls, uncaught, processVars>>

\* TechExcept without a try around the technicals: the run ends
TechExceptAborts(at, shown) ==
    /\ raised' = raised \cup {at}
    /\ ui' = ui \o shown
    /\ UNCHANGED <<sma_signal, rsi_signal, macd_signal, rsi>>
    /\ pc' = "aborted"

\* TechExcept resetting the momentum signals only
TechExceptPartial(at, shown) ==
    /\ raised' = raised \cup {at}
    /\ ui' = ui \o shown \o <<"info: Technical indicator calculation failed.">>
    /\ UNCHANGED sma_signal
    /\ rsi_signal' = NA
    /\ macd_signal' = NA
    /\ rsi' = Num(0)
    /\ pc' = "load"

\* app.py 126-131: the except block of the technicals step, entered from
\* the place at after the displays in shown
TechExcept(at, shown) ==
    /\ raised' = raised \cup {at}
    /\ ui' = ui \o shown \o <<"info: Technical indicator calculation failed.">>
    /\ sma_signal' = NA
    /\ rsi_signal' = NA
    /\ macd_signal' = NA
    /\ rsi' = Num(0)
    /\ pc' = "load"

\* app.py 80-92: ticker.history answers
FetchHistory(d) ==
    /\ pc = "tech_fetch"
    /\ calls' = Append(calls, "history")
    /\ data' = d
    /\ IF d.kind = "none" \/ Len(d.close) = 0
       THEN /\ ui' = ui \o <<"subheader: Technical Indicators",
                            "info: No technical data available.">>
            /\ sma_signal' = NA
            /\ rsi_signal' = NA
            /\ macd_signal' = NA
            /\ rsi' = Num(0)
            /\ pc' = "load"
       ELSE /\ ui' = Append(ui, "subheader: Technical Indicators")
            /\ pc' = "sma"
            /\ UNCHANGED <<sma_signal, rsi, rsi_signal, macd_signal>>
    /\ UNCHANGED <<stock, fund, newsVars, aiVars, raised, uncaught, processVars>>

\* app.py 83: ticker.history raises
FetchHistoryRaises ==
    /\ pc = "tech_fetch"
    /\ calls' = Append(calls, "history")
    /\ TechExcept("tech_fetch", <<"subheader: Technical Indicators">>)
    /\ UNCHANGED <<stock, fund, newsVars, data, aiVars, uncaught, processVars>>

\* app.py 94-101
TechSMA ==
    /\ pc = "sma"
    /\ sma_signal' = SmaSignal(data.close)
    /\ pc' = "rsi"
    /\ UNCHANGED <<stock, fund, newsVars, data, rsi, rsi_signal, macd_signal, aiVars,
                   ui, calls, raised, uncaught, processVars>>

\* app.py 104
TechRSI ==
    /\ pc = "rsi"
    /\ rsi' \in RsiValues(data.close)
    /\ pc' = "rsi_class"
    /\ UNCHANGED <<stock, fund, newsVars, data, sma_signal, rsi_signal, macd_signal,
                   aiVars, ui, calls, raised, uncaught, processVars>>

\* app.py 105-110
TechRSIClassify ==
    /\ pc = "rsi_class"
    /\ rsi_signal' = RsiSignal(rsi)
    /\ pc' = "macd"
    /\ UNCHANGED <<stock, fund, newsVars, data, sma_signal, rsi, macd_signal, aiVars,
                   ui, calls, raised, uncaught, processVars>>

\* app.py 113-120
TechMACD ==
    /\ pc = "macd"
    /\ \E above \in MacdAbove(data.close) : macd_signal' = MacdSignal(above)
    /\ pc' = "tech_show"
    /\ UNCHANGED <<stock, fund, newsVars, data, sma_signal, rsi, rsi_signal, aiVars,
                   ui, calls, raised, uncaught, processVars>>

\* app.py 122-124
TechShow ==
    /\ pc = "tech_show"
    /\ ui' = Append(ui, "write: technicals")
    /\ pc' = "load"
    /\ UNCHANGED <<stock, fund, newsVars, techVars, aiVars, calls, raised, uncaught,
                   processVars>>

\* app.py 92-124: a library call or a display of the try body raises
TechRaises ==
    /\ pc \in {"sma", "rsi", "rsi_class", "macd", "tech_show"}
    /\ TechExcept(pc, <<>>)
    /\ UNCHANGED <<stock, fund, newsVars, data, aiVars, calls, uncaught, processVars>>

\* LoadModelCached without the cache: the body runs on every call
LoadModelUncached ==
    /\ pc = "load"
    /\ cache # 0
    /\ calls' = Append(calls, "load_model")
    /\ ui' = ui \o <<"subheader: Gen-AI Stock Analysis", "spinner">>
    /\ loads' = loads + 1
    /\ cache' = loads + 1
    /\ llm' = loads + 1
    /\ pc' = "prompt"
    /\ UNCHANGED <<stock, fund, newsVars, techVars, prompt, response, raised, uncaught,
                   requests>>

\* app.py 16, 136-137: load_model() finds its value in the resource cache
LoadModelCached ==
    /\ pc = "load"
    /\ cache # 0
    /\ calls' = Append(calls, "load_model")
    /\ ui' = ui \o <<"subheader: Gen-AI Stock Analysis", "spinner">>
    /\ llm' = cache
    /\ pc' = "prompt"
    /\ UNCHANGED <<stock, fund, newsVars, techVars, prompt, response, raised, uncaught,
                   processVars>>

\* app.py 16-22, 136-137: no cached value; the body runs and its result
\* is cached
LoadModelRuns ==
    /\ pc = "load"
    /\ cache = 0
    /\ calls' = Append(calls, "load_model")
    /\ ui' = ui \o <<"subheader: Gen-AI Stock Analysis", "spinner">>
    /\ loads' = loads + 1
    /\ cache' = loads + 1
    /\ llm' = loads + 1
    /\ pc' = "prompt"
    /\ UNCHANGED <<stock, fund, newsVars, techVars, prompt, response, raised, uncaught,
                   requests>>

\* app.py 19-21: the body raises; nothing is cached, nothing catches it
LoadModelRaises ==
    /\ pc = "load"
    /\ cache = 0
    /\ calls' = Append(calls, "load_model")
    /\ ui' = ui \o <<"subheader: Gen-AI Stock Analysis", "spinner">>
    /\ loads' = loads + 1
    /\ raised' = raised \cup {"load"}
    /\ uncaught' = "load"
    /\ pc' = "aborted"
    /\ UNCHANGED <<stock, fund, newsVars, techVars, aiVars, cache, requests>>

\* app.py 139-170
Prompt ==
    [fund |-> fund, news_text |-> news_text, sma_signal |-> sma_signal,
     rsi_signal |-> rsi_signal, rsi |-> rsi, macd_signal |-> macd_signal]

AssemblePrompt ==
    /\ pc = "prompt"
    /\ prompt' = Prompt
    /\ pc' = "generate"
    /\ UNCHANGED <<stock, fund, newsVars, techVars, llm, response, ui, calls, raised,
                   uncaught, processVars>>

\* app.py 172-173
Generate ==
    /\ pc = "generate"
    /\ calls' = Append(calls, "llm")
    /\ response' = [by |-> llm, prompt |-> prompt]
    /\ ui' = Append(ui, "success: generated_text")
    /\ pc' = "done"
    /\ UNCHANGED <<stock, fund, newsVars, techVars, llm, prompt, raised, uncaught,
                   processVars>>

\* app.py 172: the generator raises; nothing catches it
GenerateRaises ==
    /\ pc = "generate"
    /\ calls' = Append(calls, "llm")
    /\ raised' = raised \cup {"generate"}
    /\ uncaught' = "generate"
    /\ pc' = "aborted"
    /\ UNCHANGED <<stock, fund, newsVars, techVars, aiVars, ui, processVars>>

\* one step of a run that has started
Run ==
    \/ \E info \in InfoDicts : FetchInfo(info)
    \/ FetchInfoRaises
    \/ \E n \in {NewsValue("none", <<>>)} \cup {NewsValue("list", l) : l \in NewsLists} :
          FetchNews(n)
    \/ FetchNewsRaises
    \/ NewsItem
    \/ NewsItemRaises
    \/ \E d \in {Frame("none", <<>>), Frame("frame", <<>>)}
                \cup {Frame("frame", p) : p \in HistorySeries} : FetchHistory(d)
    \/ FetchHistoryRaises
    \/ TechSMA
    \/ TechRSI
    \/ TechRSIClassify
    \/ TechMACD
    \/ TechShow
    \/ TechRaises
    \/ LoadModelCached
    \/ LoadModelRuns
    \/ LoadModelRaises
    \/ AssemblePrompt
    \/ Generate
    \/ GenerateRaises

Next == (\E t \in Tickers : Analyze(t)) \/ Run

Spec == Init /\ [][Next]_vars

\* ------------------------------------------------- the indicator engine
\* The three signal derivations (app.py 92-120) applied to a price series.
EngineInit == \E p \in PriceSeries : Start("sma", Frame("frame", p), Unbound)
EngineNext == TechSMA \/ TechRSI \/ TechRSIClassify \/ TechMACD
EngineSpec == EngineInit /\ [][EngineNext]_vars

\* The oscillator classification (app.py 105-110) applied to every value
\* the oscillator can have.
RsiDomain == {NaN} \cup {Num(v) : v \in 0..RsiMax}
ClassifyInit == \E r \in RsiDomain : Start("rsi_class", Frame("unbound", <<>>), r)
ClassifyNext == TechRSIClassify
ClassifySpec == ClassifyInit /\ [][ClassifyNext]_vars
\* ----------------------------------------------------------- properties
GatewayPlaces == {"info", "news_fetch", "tech_fetch"}
NewsPlaces == {"news_fetch", "news_loop"}
TechPlaces == {"tech_fetch", "sma", "rsi", "rsi_class", "macd", "tech_show"}
NarrativePlaces == {"load", "generate"}
CallOrder == <<"info", "news", "history", "load_model", "llm">>

Bullish == "Bullish (Golden Cross Trend)"
Bearish == "Bearish (Below Long Term Trend)"
OverboughtLabel == "Overbought - Possible Correction"
OversoldLabel == "Oversold - Possible Reversal"
NeutralLabel == "Neutral Momentum"

\* a run with a ticker that has left the news step, resp. the technicals
NewsOver ==
    /\ stock # ""
    /\ pc \notin {"idle", "info", "news_fetch", "news_loop"}
    /\ uncaught # "info"
TechOver ==
    /\ stock # ""
    /\ \/ pc \in {"load", "prompt", "generate", "done"}
       \/ pc = "aborted" /\ uncaught \in NarrativePlaces

NewsFailed ==
    \/ raised \cap NewsPlaces # {}
    \/ news.kind # "list"
    \/ Len(news.items) = 0
TechFailed ==
    \/ raised \cap TechPlaces # {}
    \/ data.kind # "frame"
    \/ Len(data.close) = 0

\* the titles of the first k entries, one per line
RECURSIVE Headlines(_, _)
Headlines(items, k) ==
    IF k = 0 THEN <<>>
    ELSE Headlines(items, k - 1)
         \o <<Get(items[k], "title", "No Title Available"), "\n">>

StrictlyIncreasing(p) == \A t \in 2..Len(p) : p[t] > p[t - 1]
Constant(p) == \A t \in 2..Len(p) : p[t] = p[t - 1]

\* C1: for a non-empty ticker, no failure of a gateway call (info, news,
\* history) ends the request: the run goes on to the prompt and the
\* generator.  Stated as: no run is ended by an exception of a gateway call.
C1_GatewayFailureNeverAborts == uncaught \notin GatewayPlaces

\* C2 as claimed: once the fundamentals are fetched, whatever the news and
\* the technicals do, the request ends with the model obtained and the
\* generator invoked exactly once.
C2_AlwaysGenerates ==
    (stock # "" /\ uncaught # "info" /\ pc \in {"done", "aborted"})
        => (llm # 0 /\ Len(SelectSeq(calls, LAMBDA c : c = "llm")) = 1)

C2_Safety ==
    /\ \E k \in 0..Len(CallOrder) : calls = SubSeq(CallOrder, 1, k)
    /\ (pc = "done" /\ stock # "")
          => /\ calls = CallOrder
             /\ response = [by |-> cache, prompt |-> Prompt]
    /\ (llm # 0 /\ pc \in {"done", "aborted"}) => calls = CallOrder
    /\ (stock # "" /\ uncaught # "info" /\ pc \in {"done", "aborted"})
          => Len(calls) >= Len(CallOrder) - 1

\* the places of a run in program order; a run only moves forward
Places ==
    <<"idle", "info", "news_fetch", "news_loop", "tech_fetch", "sma", "rsi",
      "rsi_class", "macd", "tech_show", "load", "prompt", "generate", "done", "aborted">>
PlaceNo(p) == CHOOSE i \in 1..Len(Places) : Places[i] = p

C2_Progress ==
    pc \notin {"idle", "done", "aborted"}
        => \/ PlaceNo(pc') > PlaceNo(pc)
           \/ pc = "news_loop" /\ pc' = pc /\ news_i' = news_i + 1 /\ news_i < NewsLimit

\* C2 as amended: once the fundamentals are fetched, every outcome of the
\* news and the technicals steps leads to the narrative stage, where
\* load_model is called: no exception of these steps ends the run, every
\* step moves the run forward, and a run that has ended has called
\* load_model.  Once load_model has returned, the generator is invoked
\* exactly once, with the prompt assembled from the values of the run.  The
\* calls of a run are made in the order info, news, history, load_model,
\* generator, each at most once.
C2_ReachesNarrative ==
    /\ [](C2_Safety /\ uncaught \notin (NewsPlaces \cup TechPlaces))
    /\ [][C2_Progress]_vars

\* a finished request whose news step and technicals step both raised
C2_Witness ==
    /\ pc = "done"
    /\ "news_loop" \in raised /\ "macd" \in raised
    /\ calls = CallOrder

\* C3: a press with an empty ticker shows the warning and does nothing
\* else: no gateway call, no model load, no prompt, no generator call.
C3_EmptyTicker ==
    (stock = "" /\ pc # "idle")
        => /\ pc = "done"
           /\ ui = <<"warning: Please enter a stock ticker">>
           /\ calls = <<>> /\ raised = {}
           /\ news.kind = "unbound" /\ data.kind = "unbound"
           /\ llm = 0 /\ DOMAIN prompt = {} /\ DOMAIN response = {}

\* an empty press in a process that has already loaded the model
C3_Witness == stock = "" /\ pc = "done" /\ requests = 2 /\ cache # 0

\* C4: after the news step the news text is exactly the placeholder if the
\* fetch returned nothing or an empty list, or the step raised anywhere
\* (also after titles were appended), and only then; otherwise it is the
\* titles of the first five entries.  The prompt embeds that text.
C4_NewsText ==
    NewsOver
        => /\ (news_text = NoNews) <=> NewsFailed
           /\ ~NewsFailed
                 => news_text = Headlines(news.items,
                                          IF Len(news.items) < NewsLimit
                                          THEN Len(news.items) ELSE NewsLimit)
           /\ DOMAIN prompt # {} => prompt.news_text = news_text

\* a finished request whose news step raised after a title was appended
C4_Witness ==
    /\ pc = "done" /\ "news_loop" \in raised /\ news_i >= 2
    /\ prompt.news_text = NoNews

\* C5: after the technicals step, if the history fetch failed or was empty
\* or anything in the step raised, the three signals are "N/A" and the
\* oscillator is 0; otherwise none of the signals is "N/A".  The prompt
\* embeds these values.
C5_Technicals ==
    TechOver
        => /\ TechFailed
                 => /\ sma_signal = NA /\ rsi_signal = NA /\ macd_signal = NA
                    /\ rsi = Num(0)
           /\ ~TechFailed
                 => sma_signal # NA /\ rsi_signal # NA /\ macd_signal # NA
           /\ DOMAIN prompt # {}
                 => /\ prompt.sma_signal = sma_signal /\ prompt.rsi = rsi
                    /\ prompt.rsi_signal = rsi_signal
                    /\ prompt.macd_signal = macd_signal

\* a finished request whose display of the three computed signals raised
C5_Witness ==
    /\ pc = "done" /\ "tech_show" \in raised
    /\ prompt.sma_signal = NA /\ prompt.rsi_signal = NA /\ prompt.macd_signal = NA
    /\ prompt.rsi = Num(0)

\* C6 as claimed: over any sequence of requests the body of load_model
\* runs at most once.
C6_LoadedOnce == loads <= 1

\* C6 as amended: the body of load_model runs only when a request reaches
\* the narrative stage and finds no cached model; that request runs it;
\* once a load has returned, its model is cached for good and every later
\* request gets that same model without another load; a load that raises
\* caches nothing, so the next request to reach the stage loads again.
C6_LazyCachedLoad ==
    [][/\ loads' # loads => (pc = "load" /\ cache = 0 /\ loads' = loads + 1)
       /\ (pc = "load" /\ pc' # "load" /\ cache = 0) => loads' = loads + 1
       /\ cache # 0 => (cache' = cache /\ loads' = loads)
       /\ (pc = "load" /\ pc' # "load" /\ cache # 0) => llm' = cache
       /\ (cache = 0 /\ cache' # 0) => llm' = cache'
       /\ (pc = "load" /\ pc' = "aborted") => cache' = cache]_vars

\* a second request that loads the model after the first one's load raised
C6_Witness == requests = 2 /\ pc = "done" /\ loads = 2 /\ llm = cache /\ cache = 2

\* C7 as claimed: a strictly increasing series of at least 200 prices gives
\* trend Bullish, oscillator Overbought or 100, and Bullish Momentum
\* (on the series whose convergence comparison the enclosures decide).
C7_RisingIsBullishMomentum ==
    (/\ pc = "tech_show" /\ Len(data.close) >= LongWindow
     /\ StrictlyIncreasing(data.close)
     /\ Cardinality(MacdAbove(data.close)) = 1)
        => /\ sma_signal = Bullish
           /\ (rsi_signal = OverboughtLabel \/ rsi = Num(RsiMax))
           /\ macd_signal = "Bullish Momentum"

\* C7 as amended: a strictly increasing series of at least 200 prices gives
\* trend Bullish and oscillator 100, classified Overbought; its convergence
\* signal is one of the two labels, not always Bullish Momentum.
C7_RisingSeries ==
    (/\ pc = "tech_show" /\ Len(data.close) >= LongWindow
     /\ StrictlyIncreasing(data.close))
        => /\ sma_signal = Bullish
           /\ rsi = Num(RsiMax) /\ rsi_signal = OverboughtLabel
           /\ macd_signal \in {"Bullish Momentum", "Bearish Momentum"}

\* a strictly increasing series whose rise slows down: Bearish Momentum
C7_Witness ==
    /\ pc = "tech_show" /\ Len(data.close) >= LongWindow
    /\ StrictlyIncreasing(data.close)
    /\ sma_signal = Bullish /\ rsi = Num(RsiMax)
    /\ MacdAbove(data.close) = {FALSE} /\ macd_signal = "Bearish Momentum"

\* C8: a constant price series has its oscillator computed and classified
\* Neutral.
C8_ConstantIsNeutral ==
    (/\ pc \in {"macd", "tech_show"} /\ data.kind = "frame"
     /\ Constant(data.close))
        => rsi.kind # "unbound" /\ rsi_signal = NeutralLabel

\* C9: on a non-empty series of any length the trend signal is one of two
\* labels: Bullish exactly when both trailing averages exist and the
\* 50-period one is strictly greater, Bearish otherwise (short series and
\* equal averages included).
C9_TrendSignal ==
    (pc \in {"rsi", "rsi_class", "macd", "tech_show"} /\ data.kind = "frame")
        => /\ sma_signal \in {Bullish, Bearish}
           /\ (sma_signal = Bullish)
                 <=> /\ Len(data.close) >= ShortWindow
                     /\ Len(data.close) >= LongWindow
                     /\ LongWindow * SumRange(data.close,
                                              Len(data.close) - ShortWindow + 1,
                                              Len(data.close))
                          > ShortWindow * SumRange(data.close,
                                                   Len(data.close) - LongWindow + 1,
                                                   Len(data.close))

\* a series of one price, classified Bearish
C9_Witness == pc = "tech_show" /\ Len(data.close) = 1 /\ sma_signal = Bearish

\* C10: the classification is total on the oscillator's value, with three
\* outcomes: Overbought above 70, Oversold below 30, Neutral otherwise;
\* 70, 30 and NaN are Neutral.
C10_Classification ==
    pc = "macd"
        => /\ rsi_signal \in {OverboughtLabel, OversoldLabel, NeutralLabel}
           /\ (rsi_signal = OverboughtLabel) <=> (rsi.kind = "num" /\ rsi.n > Overbought)
           /\ (rsi_signal = OversoldLabel) <=> (rsi.kind = "num" /\ rsi.n < Oversold)
           /\ rsi \in {NaN, Num(Overbought), Num(Oversold)} => rsi_signal = NeutralLabel

\* the value 70, classified Neutral
C10_Witness == pc = "macd" /\ rsi = Num(Overbought) /\ rsi_signal = NeutralLabel
====
